---- MODULE Spec2Model ----
(***************************************************************************)
(* A model of camel/chat_agent.py: ChatAgent (transcript, budget check,    *)
(* retry-wrapped step) and TaskSpecifyAgent (template, specify_task).      *)
(*                                                                         *)
(* The modelled object is one TaskSpecifyAgent; it is a ChatAgent, so      *)
(* step, reset and specify_task can all be called on it.  Strings are      *)
(* sequences of atoms (words and the placeholder tokens "<TASK>" and       *)
(* "<WORD_LIMIT>"); str.replace and str(int) are computed on them.         *)
(* One call of step is a loop of attempts driven by tenacity's @retry:     *)
(* every attempt runs the whole body of step.                              *)
(***************************************************************************)
EXTENDS Integers, Sequences, FiniteSets, TLC

VARIABLES
    stored_messages,      \* self.stored_messages
    terminated,           \* self.terminated
    task_specify_prompt,  \* self.task_specify_prompt
    ctor,                 \* the arguments TaskSpecifyAgent.__init__ was given
    pc,                   \* "idle" | "step" | "specify_task"
    caller,               \* who called step: "user" | "specify_task"
    input_message,        \* the argument of the step call in progress
    attempt_number,       \* tenacity's attempt counter of the step call
    requests,             \* openai.ChatCompletion.create calls of the step call
    last_exception,       \* what the last attempt raised ("None" if nothing)
    num_tokens,           \* the local num_tokens of the last attempt
    response,             \* what the service returned to the last attempt
    step_out,             \* how the last step call ended
    call_out,             \* how the last reset / specify_task call ended
    pre_messages,         \* stored_messages when the step call began
    pre_terminated,       \* terminated when the last call began
    specify_calls,        \* how many times specify_task was called
    original_task_prompt  \* the argument of the last specify_task call

vars == <<stored_messages, terminated, task_specify_prompt, ctor, pc, caller,
          input_message, attempt_number, requests, last_exception, num_tokens,
          response, step_out, call_out, pre_messages, pre_terminated, specify_calls,
          original_task_prompt>>

(***************************************************************************)
(* Bounds of the model.                                                    *)
(***************************************************************************)
\* step and specify_task are called only while the transcript is this short
MaxStored == 3
\* the service returns at most this many candidates
MaxChoices == 2
\* specify_task is called at most this many times on one agent
MaxSpecifyCalls == 2

None == "None"

(***************************************************************************)
(* Strings.                                                                *)
(***************************************************************************)
RECURSIVE Repeat(_, _)
Repeat(s, n) == IF n = 0 THEN <<>> ELSE s \o Repeat(s, n - 1)

Digits == <<"0", "1", "2", "3", "4", "5", "6", "7", "8", "9">>

\* str(n) of a non-negative int: its decimal text
RECURSIVE str(_)
str(n) == IF n < 10 THEN <<Digits[n + 1]>>
          ELSE str(n \div 10) \o <<Digits[(n % 10) + 1]>>

\* s.replace(old, new): every non-overlapping occurrence, left to right,
\* without rescanning what was put in
RECURSIVE replace(_, _, _)
replace(s, old, new) ==
    IF Len(s) < Len(old) THEN s
    ELSE IF SubSeq(s, 1, Len(old)) = old
         THEN new \o replace(SubSeq(s, Len(old) + 1, Len(s)), old, new)
         ELSE <<Head(s)>> \o replace(Tail(s), old, new)

Contains(s, old) ==
    \E i \in 1..(Len(s) - Len(old) + 1) : SubSeq(s, i, i + Len(old) - 1) = old

TASK == <<"<TASK>">>
WORD_LIMIT == <<"<WORD_LIMIT>">>

(***************************************************************************)
(* Messages.                                                               *)
(***************************************************************************)
ChatMessage(role_name, role_type, role, content) ==
    [role_name |-> role_name, role_type |-> role_type,
     role |-> role, content |-> content]

UserChatMessage(role_name, content) ==
    ChatMessage(role_name, "USER", "user", content)

SystemMessage(role_name, role_type, content) ==
    ChatMessage(role_name, role_type, "system", content)

\* the system message TaskSpecifyAgent.__init__ builds
system_message ==
    SystemMessage("task_specifier", "ASSISTANT", <<"You can specify a task.">>)

role_name == system_message.role_name
role_type == system_message.role_type

to_openai_message(m) == [role |-> m.role, content |-> m.content]

RenderAll(messages) ==
    [i \in 1..Len(messages) |-> to_openai_message(messages[i])]

\* the token count of a rendered transcript: one token per message plus one
\* per atom of its content
RECURSIVE num_tokens_from_messages(_)
num_tokens_from_messages(openai_messages) ==
    IF openai_messages = <<>> THEN 0
    ELSE 1 + Len(Head(openai_messages).content)
         + num_tokens_from_messages(Tail(openai_messages))

\* the ceiling of the model (4096 for gpt-3.5-turbo, scaled down)
get_model_token_limit == 16
model_token_limit == get_model_token_limit

(***************************************************************************)
(* The inputs the callers and the collaborators supply.                    *)
(***************************************************************************)
\* template texts (the prompt file, or the task_specify_prompt argument)
Templates ==
    { <<"Specify", "<TASK>", "in", "<WORD_LIMIT>", "words">>,
      <<"<WORD_LIMIT>", "<TASK>", "<WORD_LIMIT>">> }

WordLimits == {7, 50}

TaskPrompts == { <<"game", "mods">>, Repeat(<<"x">>, model_token_limit) }

\* ChatMessage("patient", RoleType.USER, "user", "Hello!") and "Hello!" * n
UserMessages ==
    { ChatMessage("patient", "USER", "user", <<"Hello!">>),
      ChatMessage("patient", "USER", "user",
                  Repeat(<<"Hello!">>, model_token_limit)) }

\* what openai.ChatCompletion.create can do: raise, or return a response
ServiceErrors == {"RateLimitError", "APIConnectionError"}

Choices ==
    { [message |-> [role |-> "assistant", content |-> <<"Hi">>],
       finish_reason |-> "stop"],
      [message |-> [role |-> "assistant", content |-> <<"Take", "care">>],
       finish_reason |-> "length"] }

ChoiceLists == UNION { [1..n -> Choices] : n \in 0..MaxChoices }

\* a response carries id, usage and choices; a malformed one lacks the id
Responses ==
    { [id |-> "chatcmpl-1", usage |-> "usage-1", choices |-> cs] :
          cs \in ChoiceLists }
    \cup { [usage |-> "usage-1", choices |-> cs] :
              cs \in { c \in ChoiceLists : Len(c) <= 1 } }

\* the service is not called
NotCalled == [kind |-> "none"]

Outcomes ==
    { [kind |-> "raise", error |-> e] : e \in ServiceErrors }
    \cup { [kind |-> "response", response |-> r] : r \in Responses }
    \cup { NotCalled }

(***************************************************************************)
(* ChatAgent.                                                              *)
(***************************************************************************)
get_info(id, usage, finish_reasons, n_tokens) ==
    [id |-> id, usage |-> usage, finish_reasons |-> finish_reasons,
     num_tokens |-> n_tokens]

init_messages == <<system_message>>

\* a variant that overwrites the last stored message
update_messages_overwrite(messages, message) ==
    IF Len(messages) > 1
    THEN [messages EXCEPT ![Len(messages)] = message]
    ELSE Append(messages, message)

\* a variant that inserts at the front
update_messages_front(messages, message) == <<message>> \o messages

update_messages(messages, message) == Append(messages, message)

\* a variant that leaves the flag as it is
reset_state_keeps_flag ==
    [terminated |-> terminated, stored_messages |-> init_messages]

\* reset(): the fields it assigns
reset_state == [terminated |-> FALSE, stored_messages |-> init_messages]

\* a variant without the budget test
UnderBudget_off(n_tokens) == TRUE

\* a variant with <= for <
UnderBudget_inclusive(n_tokens) == n_tokens <= model_token_limit

\* the test of line 64
UnderBudget(n_tokens) == n_tokens < model_token_limit

\* a variant that leaves the flag as it was
BudgetExceeded_keeps_flag(terminated0) == terminated0

\* self.terminated = True (line 87)
BudgetExceeded(terminated0) == TRUE

\* a variant allowing one attempt more
stop_after_attempt_more == 5 + 1

\* stop=stop_after_attempt(5)
stop_after_attempt == 5

\* a variant storing the last candidate
Persisted_last(output_messages) == output_messages[Len(output_messages)]

\* the candidate step stores in the transcript (line 84)
Persisted(output_messages) == output_messages[1]

\* lines 70-74: one message per choice, stamped with the agent's persona
OutputMessages(resp) ==
    [i \in 1..Len(resp.choices) |->
        ChatMessage(role_name, role_type,
                    resp.choices[i].message.role,
                    resp.choices[i].message.content)]

\* a variant reporting the first choice only
FinishReasons_first(resp) == <<resp.choices[1].finish_reason>>

\* lines 78-81
FinishReasons(resp) ==
    [i \in 1..Len(resp.choices) |-> resp.choices[i].finish_reason]

\* what one run of the body of step raises after the service answered:
\* response["id"] of a resp without id, then output_messages[0] of an
\* empty list
DecodeError(resp) ==
    IF "id" \notin DOMAIN resp THEN "KeyError"
    ELSE IF Len(resp.choices) = 0 THEN "IndexError"
    ELSE None

NoInfo == get_info(None, None, <<>>, 0)

NoResponse == [none |-> TRUE]

\* One run of the body of step (lines 60-97) on transcript `messages0` with
\* flag `terminated0`, when the service, if called, does `outcome`.
step_body(messages0, terminated0, message, outcome) ==
    LET messages == update_messages(messages0, message)
        openai_messages == RenderAll(messages)
        n_tokens == num_tokens_from_messages(openai_messages)
    IN  IF UnderBudget(n_tokens)
        THEN IF outcome.kind = "raise"
             THEN [stored_messages |-> messages, terminated |-> terminated0,
                   raised |-> outcome.error, output_messages |-> <<>>,
                   info |-> NoInfo, num_tokens |-> n_tokens,
                   requested |-> TRUE]
             ELSE IF DecodeError(outcome.response) # None
             THEN [stored_messages |-> messages, terminated |-> terminated0,
                   raised |-> DecodeError(outcome.response),
                   output_messages |-> <<>>,
                   info |-> NoInfo, num_tokens |-> n_tokens,
                   requested |-> TRUE]
             ELSE LET output_messages == OutputMessages(outcome.response)
                  IN [stored_messages |->
                          update_messages(messages, Persisted(output_messages)),
                      terminated |-> terminated0,
                      raised |-> None,
                      output_messages |-> output_messages,
                      info |-> get_info(outcome.response.id,
                                        outcome.response.usage,
                                        FinishReasons(outcome.response),
                                        n_tokens),
                      num_tokens |-> n_tokens,
                      requested |-> TRUE]
        ELSE [stored_messages |-> messages,
              terminated |-> BudgetExceeded(terminated0),
              raised |-> None, output_messages |-> <<>>,
              info |-> get_info(None, None, <<"max_tokens_exceeded">>,
                                n_tokens),
              num_tokens |-> n_tokens,
              requested |-> FALSE]

\* whether a run of the body on `messages0` reaches the request of line 65
WillRequest(messages0, message) ==
    UnderBudget(num_tokens_from_messages(
                    RenderAll(update_messages(messages0, message))))

NoStepOut ==
    [kind |-> "none", output_messages |-> <<>>, terminated |-> FALSE,
     info |-> NoInfo, error |-> None, cause |-> None]

CallOut(op, kind, messages, content, error) ==
    [op |-> op, kind |-> kind, messages |-> messages, content |-> content,
     error |-> error]

\* where control goes when the step call ends
AfterStep(who) == IF who = "user" THEN "idle" ELSE "specify_task"

\* The retry wrapper of line 56 after attempt `n` ran the body with result
\* `r`: if the body raised, stop with RetryError after stop_after_attempt
\* attempts, else wait and run it again.
retrying(r, n, who, outcome) ==
        /\ stored_messages' = r.stored_messages
        /\ terminated' = r.terminated
        /\ attempt_number' = n
        /\ requests' = IF n = 1 THEN (IF r.requested THEN 1 ELSE 0)
                       ELSE requests + (IF r.requested THEN 1 ELSE 0)
        /\ last_exception' = r.raised
        /\ num_tokens' = r.num_tokens
        /\ response' = IF r.requested /\ outcome.kind = "response"
                       THEN outcome.response ELSE NoResponse
        /\ IF r.raised = None
           THEN /\ step_out' = [kind |-> "return",
                                output_messages |-> r.output_messages,
                                terminated |-> r.terminated,
                                info |-> r.info,
                                error |-> None, cause |-> None]
                /\ pc' = AfterStep(who)
           ELSE IF n >= stop_after_attempt
           THEN /\ step_out' = [kind |-> "raise",
                                output_messages |-> <<>>,
                                terminated |-> r.terminated,
                                info |-> NoInfo,
                                error |-> "RetryError", cause |-> r.raised]
                /\ pc' = AfterStep(who)
           ELSE /\ step_out' = NoStepOut
                /\ pc' = "step"

\* One attempt of the retry-wrapped step: run the body, then the wrapper.
attempt(messages0, terminated0, message, n, who, outcome) ==
    /\ WillRequest(messages0, message) <=> outcome # NotCalled
    /\ retrying(step_body(messages0, terminated0, message, outcome),
                n, who, outcome)

\* the top-level call's result, once the step call a user made has ended
StepCallOut(who) ==
    IF pc' = "idle"
    THEN CallOut("step", step_out'.kind, <<>>, <<>>, step_out'.error)
    ELSE CallOut(IF who = "user" THEN "step" ELSE "specify_task",
                 "pending", <<>>, <<>>, None)

\* agent.step(message): the first attempt
step(message, outcome) ==
    /\ pc = "idle"
    /\ Len(stored_messages) <= MaxStored
    /\ caller' = "user"
    /\ input_message' = message
    /\ pre_messages' = stored_messages
    /\ pre_terminated' = terminated
    /\ attempt(stored_messages, terminated, message, 1, "user", outcome)
    /\ call_out' = StepCallOut("user")
    /\ UNCHANGED <<task_specify_prompt, ctor, specify_calls, original_task_prompt>>

\* the retry wrapper runs step again after a failed attempt
retry(outcome) ==
    /\ pc = "step"
    /\ attempt(stored_messages, terminated, input_message,
               attempt_number + 1, caller, outcome)
    /\ call_out' = StepCallOut(caller)
    /\ UNCHANGED <<task_specify_prompt, ctor, caller, input_message,
                   pre_messages, pre_terminated, specify_calls, original_task_prompt>>

\* agent.reset()
reset ==
    /\ pc = "idle"
    /\ pre_terminated' = terminated
    /\ terminated' = reset_state.terminated
    /\ stored_messages' = reset_state.stored_messages
    /\ call_out' = CallOut("reset", "return", stored_messages', <<>>, None)
    /\ UNCHANGED <<task_specify_prompt, ctor, pc, caller, input_message,
                   attempt_number, requests, last_exception, num_tokens,
                   response, step_out, pre_messages, specify_calls, original_task_prompt>>

(***************************************************************************)
(* TaskSpecifyAgent.                                                       *)
(***************************************************************************)
\* the template __init__ stores (lines 113-118)
StoredPrompt(c) ==
    IF ~c.prompt_given
    THEN replace(c.template, WORD_LIMIT, str(c.word_limit))
    ELSE c.template

\* agent.specify_task(original_task_prompt), up to the first attempt of its
\* step call
specify_task(task, outcome) ==
    /\ pc = "idle"
    /\ specify_calls < MaxSpecifyCalls
    /\ specify_calls' = specify_calls + 1
    /\ original_task_prompt' = task
    /\ pre_terminated' = terminated
    /\ pre_messages' = reset_state.stored_messages
    /\ task_specify_prompt' =
           replace(task_specify_prompt, TASK, task)
    /\ LET task_msg == UserChatMessage("task_specifier", task_specify_prompt')
       IN  /\ input_message' = task_msg
           /\ attempt(reset_state.stored_messages, reset_state.terminated,
                      task_msg, 1, "specify_task", outcome)
    /\ caller' = "specify_task"
    /\ call_out' = StepCallOut("specify_task")
    /\ UNCHANGED ctor

\* a variant taking the last message
Specified_last(specified_task_msgs) ==
    specified_task_msgs[Len(specified_task_msgs)]

\* specified_task_msg = specified_task_msgs[0]
Specified(specified_task_msgs) == specified_task_msgs[1]

\* specify_task after its step call ended (lines 133-139)
specify_task_finish ==
    /\ pc = "specify_task"
    /\ pc' = "idle"
    /\ call_out' =
          IF step_out.kind = "raise"
          THEN CallOut("specify_task", "raise", <<>>, <<>>, step_out.error)
          ELSE IF Len(step_out.output_messages) = 0
          THEN CallOut("specify_task", "raise", <<>>, <<>>, "IndexError")
          ELSE IF step_out.terminated
          THEN CallOut("specify_task", "raise", <<>>, <<>>, "RuntimeError")
          ELSE CallOut("specify_task", "return", <<>>,
                       Specified(step_out.output_messages).content, None)
    /\ UNCHANGED <<stored_messages, terminated, task_specify_prompt, ctor,
                   caller, input_message, attempt_number, requests,
                   last_exception, num_tokens, response, step_out,
                   pre_messages, pre_terminated, specify_calls, original_task_prompt>>

(***************************************************************************)
(* The specification.                                                      *)
(***************************************************************************)
Ctors ==
    [prompt_given : BOOLEAN, template : Templates, word_limit : WordLimits]

Init ==
    /\ ctor \in Ctors
    /\ task_specify_prompt = StoredPrompt(ctor)
    /\ terminated = FALSE
    /\ stored_messages = init_messages
    /\ pc = "idle"
    /\ caller = "user"
    /\ input_message = system_message
    /\ attempt_number = 0
    /\ requests = 0
    /\ last_exception = None
    /\ num_tokens = 0
    /\ response = NoResponse
    /\ step_out = NoStepOut
    /\ call_out = CallOut("init", "return", <<>>, <<>>, None)
    /\ pre_messages = init_messages
    /\ pre_terminated = FALSE
    /\ specify_calls = 0
    /\ original_task_prompt = <<>>

Next ==
    \/ \E m \in UserMessages, o \in Outcomes : step(m, o)
    \/ \E o \in Outcomes : retry(o)
    \/ reset
    \/ \E t \in TaskPrompts, o \in Outcomes : specify_task(t, o)
    \/ specify_task_finish

Spec == Init /\ [][Next]_vars

(***************************************************************************)
(* Properties.                                                             *)
(***************************************************************************)
\* a step call has ended and nothing was called on the agent since
StepJustEnded == pc # "step" /\ call_out.op \in {"step", "specify_task"}

\* the step call ended with a reply of the service
StepSucceeded ==
    /\ StepJustEnded
    /\ step_out.kind = "return"
    /\ num_tokens < model_token_limit

\* C1: a step call whose computed token count is at or above the ceiling
\* returns no messages, terminated = true and metadata with id = none,
\* usage = none, finish_reasons = ["max_tokens_exceeded"] and num_tokens =
\* the computed count, and leaves the agent terminated.
C1_OverBudgetResult ==
    (StepJustEnded /\ num_tokens >= model_token_limit) =>
        /\ step_out.kind = "return"
        /\ step_out.output_messages = <<>>
        /\ step_out.terminated = TRUE
        /\ step_out.info.id = None
        /\ step_out.info.usage = None
        /\ step_out.info.finish_reasons = <<"max_tokens_exceeded">>
        /\ step_out.info.num_tokens = num_tokens
        /\ num_tokens = num_tokens_from_messages(RenderAll(stored_messages))
        /\ terminated = TRUE

\* a call that ended over budget with the count exactly at the ceiling
C1_Witness ==
    /\ StepJustEnded
    /\ caller = "user"
    /\ num_tokens = model_token_limit
    /\ step_out.kind = "return"

\* C2: after a successful step call every candidate of the response is
\* returned as a message carrying the agent's persona, and the transcript is
\* the earlier transcript, the incoming message, and then the first
\* candidate alone as its last element.
C2_OnlyFirstCandidateStored ==
    (StepSucceeded /\ response # NoResponse) =>
        LET out == step_out.output_messages
            n == Len(stored_messages)
            k == Len(pre_messages)
        IN  /\ Len(response.choices) >= 1
            /\ Len(out) = Len(response.choices)
            /\ \A i \in 1..Len(out) :
                  /\ out[i].role_name = "task_specifier"
                  /\ out[i].role_type = "ASSISTANT"
                  /\ out[i].role = response.choices[i].message.role
                  /\ out[i].content = response.choices[i].message.content
            /\ n >= k + 2
            /\ SubSeq(stored_messages, 1, k) = pre_messages
            /\ \A i \in (k + 1)..(n - 1) : stored_messages[i] = input_message
            /\ stored_messages[n] = out[1]

\* a successful call whose response had two different candidates
C2_Witness ==
    /\ StepSucceeded
    /\ Len(step_out.output_messages) = 2
    /\ step_out.output_messages[1] # step_out.output_messages[2]

\* C3: after a step call the transcript is the transcript before it, the
\* incoming message once, and the first candidate iff the call succeeded.
C3_IncomingAppendedOnce ==
    StepJustEnded =>
        stored_messages =
            pre_messages \o <<input_message>> \o
            (IF StepSucceeded THEN <<step_out.output_messages[1]>> ELSE <<>>)

\* C4: the transcript is never empty and starts with the system message.
C4_SystemMessageFirst ==
    /\ Len(stored_messages) >= 1
    /\ stored_messages[1] = system_message

\* a step call that exhausted its attempts, on an agent that ran
\* specify_task before
C4_Witness ==
    /\ pc = "idle"
    /\ call_out.op = "step"
    /\ step_out.kind = "raise"
    /\ specify_calls >= 1
    /\ Len(stored_messages) = 6

C5_FreshAgent ==
    /\ terminated = FALSE
    /\ stored_messages = <<system_message>>

C5_AfterReset ==
    (pc = "idle" /\ call_out.op = "reset") =>
        /\ terminated = FALSE
        /\ stored_messages = <<system_message>>
        /\ call_out.kind = "return"
        /\ call_out.messages = stored_messages

C5_SecondReset ==
    (call_out.op = "reset" /\ call_out'.op = "reset") =>
        /\ stored_messages' = stored_messages
        /\ terminated' = terminated
        /\ call_out' = call_out

\* C5: a fresh agent is non-terminated with transcript [system message];
\* reset leaves the agent in that state and returns the transcript; a reset
\* right after a reset changes nothing and returns the same.
C5_Reset ==
    /\ C5_FreshAgent
    /\ []C5_AfterReset
    /\ [][C5_SecondReset]_vars

\* a reset of a terminated agent
C5_Witness ==
    /\ pc = "idle"
    /\ call_out.op = "reset"
    /\ pre_terminated = TRUE

\* C6: one step call makes at most 5 requests; it goes on only after a
\* failed attempt and while fewer than 5 were made; after the 5th failed
\* attempt it ends by raising.
C6_AtMostFiveRequests ==
    /\ requests <= 5
    /\ attempt_number <= 5
    /\ pc = "step" =>
          /\ last_exception # None
          /\ attempt_number < 5
          /\ requests = attempt_number
    /\ (StepJustEnded /\ attempt_number = 5 /\ last_exception # None) =>
          /\ step_out.kind = "raise"
          /\ requests = 5

\* a call that ended after five failed requests
C6_Witness ==
    /\ StepJustEnded
    /\ requests = 5
    /\ last_exception \in ServiceErrors
    /\ step_out.kind = "raise"

\* C7: when the attempts are exhausted the caller receives the failure the
\* service call raised, unchanged.
C7_FailureSurfacesUnchanged ==
    (StepJustEnded /\ step_out.kind = "raise"
        /\ last_exception \in ServiceErrors) =>
        step_out.error = last_exception

\* C8: if the turn of specify_task reports terminated, specify_task raises
\* RuntimeError("Task specification failed.") and no other error.
C8_OverBudgetRaisesRuntimeError ==
    (pc = "idle" /\ call_out.op = "specify_task"
        /\ step_out.kind = "return" /\ step_out.terminated) =>
        /\ call_out.kind = "raise"
        /\ call_out.error = "RuntimeError"

\* C9: when the turn of specify_task is under budget and the service call
\* succeeds, specify_task returns the content of the first message of the
\* turn and the agent is not terminated.
C9_ReturnsFirstContent ==
    (pc = "idle" /\ call_out.op = "specify_task" /\ StepSucceeded) =>
        /\ call_out.kind = "return"
        /\ call_out.content = step_out.output_messages[1].content
        /\ call_out.content = response.choices[1].message.content
        /\ terminated = FALSE

\* specify_task succeeded on an agent that was terminated, with two
\* different candidates in the response
C9_Witness ==
    /\ pc = "idle"
    /\ call_out.op = "specify_task"
    /\ StepSucceeded
    /\ pre_terminated = TRUE
    /\ Len(step_out.output_messages) = 2
    /\ step_out.output_messages[1] # step_out.output_messages[2]

\* C10: for a template with <TASK> and <WORD_LIMIT>, given directly or read
\* from the file, the stored template before the first specify_task is the
\* template with <WORD_LIMIT> replaced by the decimal text of the word limit
\* and still holds <TASK>.
C10_WordLimitSubstituted ==
    (/\ Contains(ctor.template, TASK)
     /\ Contains(ctor.template, WORD_LIMIT)
     /\ specify_calls = 0) =>
        /\ task_specify_prompt =
               replace(ctor.template, WORD_LIMIT, str(ctor.word_limit))
        /\ ~Contains(task_specify_prompt, WORD_LIMIT)
        /\ Contains(task_specify_prompt, TASK)

\* this step runs one attempt of step (the first one or a retry)
AttemptRan ==
    \/ pc = "step"
    \/ pc = "idle" /\ call_out'.op \in {"step", "specify_task"}

\* this step runs reset (called directly or by specify_task)
ResetRan ==
    pc = "idle" /\ call_out'.op \in {"reset", "specify_task"}

\* the transcript and the flag the attempt starts from
AttemptBase ==
    IF pc = "idle" /\ call_out'.op = "specify_task"
    THEN <<system_message>> ELSE stored_messages

AttemptBaseFlag ==
    IF pc = "idle" /\ call_out'.op = "specify_task"
    THEN FALSE ELSE terminated

RequestsBefore == IF pc = "step" THEN requests ELSE 0

C11_Attempt ==
    (AttemptRan /\ num_tokens' >= model_token_limit) =>
        /\ requests' = RequestsBefore
        /\ response' = NoResponse
        /\ last_exception' = None
        /\ pc' # "step"
        /\ step_out'.kind = "return"
        /\ stored_messages' = Append(AttemptBase, input_message')

\* C11: an attempt whose token count is at or above the ceiling makes no
\* request, raises nothing, ends the call by returning (no retry follows)
\* and changes the transcript only by appending the incoming message.
C11_OverBudgetAttempt == [][C11_Attempt]_vars

\* a call that ended over budget on a retry, after one failed request
C11_Witness ==
    /\ StepJustEnded
    /\ num_tokens >= model_token_limit
    /\ attempt_number = 2
    /\ requests = 1
    /\ Len(stored_messages) = Len(pre_messages) + 2

\* C12: after a successful step call the returned flag is false and the
\* metadata holds the response's id (not none), its usage and one finish
\* reason per returned candidate.
C12_SuccessMetadata ==
    (StepSucceeded /\ response # NoResponse) =>
        /\ step_out.terminated = FALSE
        /\ step_out.info.id # None
        /\ step_out.info.id = response.id
        /\ step_out.info.usage = response.usage
        /\ step_out.info.num_tokens = num_tokens
        /\ Len(step_out.info.finish_reasons) = Len(step_out.output_messages)
        /\ \A i \in 1..Len(response.choices) :
              step_out.info.finish_reasons[i] =
                  response.choices[i].finish_reason

\* a call that succeeded on a retry with two candidates
C12_Witness ==
    /\ StepSucceeded
    /\ attempt_number >= 2
    /\ Len(step_out.output_messages) = 2
    /\ step_out.info.finish_reasons = <<"stop", "length">>

\* C13: a malformed response ends the step call at once with the decoding
\* error it triggers: no retry is pending and the caller gets that error.
C13_MalformedNotRetried ==
    (last_exception \in {"KeyError", "IndexError"}
        /\ (pc = "step" \/ StepJustEnded)) =>
        /\ pc # "step"
        /\ step_out.kind = "raise"
        /\ step_out.error = last_exception

\* C14: every attempt of a call decides on the token count of the pre-turn
\* transcript plus the incoming message once, and a call that went past its
\* first attempt does not end in the budget-exceeded outcome.
C14_BudgetDecidedOnce ==
    ((pc = "step" \/ StepJustEnded) /\ attempt_number >= 1) =>
        /\ num_tokens = num_tokens_from_messages(
               RenderAll(Append(pre_messages, input_message)))
        /\ (StepJustEnded /\ attempt_number >= 2) =>
               ~(step_out.kind = "return" /\ step_out.terminated
                   /\ step_out.output_messages = <<>>)

\* C15: the user message of every specify_task call is the construction-time
\* template with <TASK> replaced by that call's description, and the stored
\* template still holds <TASK> after the call.
C15_TemplateKept ==
    (call_out.op = "specify_task") =>
        /\ input_message =
               UserChatMessage("task_specifier",
                   replace(StoredPrompt(ctor), TASK, original_task_prompt))
        /\ Contains(task_specify_prompt, TASK)

C16_Step ==
    /\ (AttemptRan /\ num_tokens' >= model_token_limit) => terminated' = TRUE
    /\ (AttemptRan /\ num_tokens' < model_token_limit) =>
           terminated' = AttemptBaseFlag
    /\ (terminated /\ ~terminated') => ResetRan
    /\ (~terminated /\ terminated') =>
           (AttemptRan /\ num_tokens' >= model_token_limit)
    /\ (terminated /\ AttemptRan /\ ~ResetRan) =>
           /\ terminated'
           /\ stored_messages' = Append(stored_messages, input_message')

\* C16: the flag is set by an attempt that finds the count at or above the
\* ceiling and by nothing else, it is cleared by reset and by nothing else,
\* and a step call on a terminated agent runs, appends and leaves it set.
C16_TerminatedFlag == [][C16_Step]_vars

\* a step call made on a terminated agent
C16_Witness ==
    /\ pc = "idle"
    /\ call_out.op = "step"
    /\ pre_terminated = TRUE
    /\ terminated = TRUE
    /\ stored_messages = Append(pre_messages, input_message)

IsPrefix(s, t) == Len(s) <= Len(t) /\ SubSeq(t, 1, Len(s)) = s

C17_Call ==
    (pc = "step" \/ StepJustEnded) => IsPrefix(pre_messages, stored_messages)

C17_Step ==
    /\ ~ResetRan => IsPrefix(stored_messages, stored_messages')
    /\ AttemptRan => IsPrefix(AttemptBase, stored_messages')

\* C17: outside reset the transcript only grows at its end: the transcript
\* before a step call is a prefix of the transcript during and after it.
C17_AppendOnly == []C17_Call /\ [][C17_Step]_vars

\* a call on a transcript with history that ended over budget after a
\* failed request
C17_Witness ==
    /\ StepJustEnded
    /\ Len(pre_messages) = 3
    /\ attempt_number >= 2
    /\ num_tokens >= model_token_limit
    /\ Len(stored_messages) = Len(pre_messages) + attempt_number

====
